---------------------------- MODULE Spec2Model ----------------------------
(***************************************************************************)
(* Model of MirroringController (webglue-api): the path absolutizer        *)
(* getAbsolutePath, the srcset rewriting of changeAssetsURL, and the       *)
(* getHTML request handler with its process-wide static fields url, html   *)
(* and assetElements.  Strings are sequences of one-character strings, so  *)
(* that the regular expressions and the split/join calls of the source are *)
(* computed character by character.                                        *)
(***************************************************************************)
EXTENDS Naturals, Sequences, FiniteSets

VARIABLES
    url,            \* MirroringController.url (static): a URL record or NoURL
    html,           \* MirroringController.html (static): the document or NoDoc
    assetElements,  \* MirroringController.assetElements (static)
    cache,          \* MirroringMemory: href -> stored document or NoEntry
    pc,             \* position of each request's handler
    req,            \* per request: what it was invoked with and what it used
    response,       \* per request: the response it sent, or NoResponse
    served,         \* hrefs for which some request has returned 200
    started,        \* number of requests received so far
    target,         \* absolutizer runs: the target URL
    input,          \* absolutizer runs: the raw attribute value
    op,             \* absolutizer runs: which function has been applied
    output,         \* absolutizer runs: result of the first application
    output2         \* absolutizer runs: result of absolutizing output again

vars == <<url, html, assetElements, cache, pc, req, response, served, started,
          target, input, op, output, output2>>

mirrorVars == <<url, html, assetElements, cache, pc, req, response, served, started>>

pathVars == <<target, input, op, output, output2>>

\* values of fields that are not set yet (undefined in the source)
NoHref == <<>>

NoURL == [href |-> <<>>, host |-> <<>>, pathname |-> <<>>]

NoDoc == [href |-> <<>>, src |-> <<>>, srcset |-> <<>>]

NoEntry == <<>>

NoError == [name |-> "", href |-> <<>>]

NoResponse == [status |-> 0, body |-> <<>>, err |-> NoError]

-----------------------------------------------------------------------------
(* Bounds of the model.                                                    *)

\* number of request slots (concurrently running getHTML handlers)
NumReqs == 2

\* number of requests received in one run
MaxStarts == 3

\* longest generated raw path / srcset value (named examples may be longer)
MaxLen == 4

-----------------------------------------------------------------------------
(* Strings.                                                                *)

Upper == {"A","B","C","D","E","F","G","H","I","J","K","L","M",
          "N","O","P","Q","R","<<",">>T","U","V","W","X","Y","Z"}

Lower == {"a","b","c","d","e","f","g","h","i","j","k","l","m",
          "n","o","p","q","r","s","t","u","v","w","x","y","z"}

Digit == {"0","1","2","3","4","5","6","7","8","9"}

\* the range A-z of the source's character class also covers [ \ ] ^ _ and
\* the grave accent (which no input of the model contains)
AzGap == {"[","\\","]","^","_"}

\* [A-z0-9\-%._~()'!*:@,;+&=?#]
PathChar == Upper \cup Lower \cup Digit \cup AzGap \cup
            {"-","%",".","_","~","(",")","'","!","*",":","@",",",";","+","&","=","?","#"}

\* String.prototype.trimLeft strips these (the ones the model can generate)
WhiteSpace == {" ", "\t", "\n"}

StartsWith(s, p) == Len(s) >= Len(p) /\ SubSeq(s, 1, Len(p)) = p

\* index of the first occurrence of character c in s, 0 when there is none
IndexOf(s, c) ==
    IF \E i \in 1..Len(s) : s[i] = c
    THEN CHOOSE i \in 1..Len(s) : s[i] = c /\ \A j \in 1..(i-1) : s[j] # c
    ELSE 0

\* String.prototype.split(c) for a one-character separator
RECURSIVE Split(_, _)
Split(s, c) ==
    LET i == IndexOf(s, c)
    IN  IF i = 0 THEN <<s>>
        ELSE <<SubSeq(s, 1, i-1)>> \o Split(SubSeq(s, i+1, Len(s)), c)

\* Array.prototype.join(c)
RECURSIVE Join(_, _)
Join(parts, c) ==
    IF parts = <<>> THEN <<>>
    ELSE IF Len(parts) = 1 THEN parts[1]
    ELSE parts[1] \o <<c>> \o Join(Tail(parts), c)

\* Array.prototype.slice(0, -k)
DropLast(parts, k) ==
    IF Len(parts) > k THEN SubSeq(parts, 1, Len(parts) - k) ELSE <<>>

\* Array.prototype.slice(1)
DropFirst(parts) == IF parts = <<>> THEN <<>> ELSE Tail(parts)

RECURSIVE trimLeft(_)
trimLeft(s) ==
    IF s # <<>> /\ s[1] \in WhiteSpace THEN trimLeft(Tail(s)) ELSE s

\* String.prototype.replace(/(http:\/\/)/gm, 'https://')
RECURSIVE httpToHttps(_)
httpToHttps(s) ==
    IF s = <<>> THEN <<>>
    ELSE IF StartsWith(s, <<"h","t","t","p",":","/","/">>)
         THEN <<"h","t","t","p","s",":","/","/">> \o httpToHttps(SubSeq(s, 8, Len(s)))
         ELSE <<s[1]>> \o httpToHttps(Tail(s))

-----------------------------------------------------------------------------
(* getAbsolutePath.                                                        *)

\* the group shared by the three expressions:
\*   (([A-z0-9...]+\/)*[A-z0-9...]*$)?$
\* s is a /-separated list of segments of class characters in which only the
\* last segment may be empty (the empty string included)
PathGrammar(s) ==
    LET segs == Split(s, "/")
    IN  \A i \in 1..Len(segs) :
            /\ \A j \in 1..Len(segs[i]) : segs[i][j] \in PathChar
            /\ (i < Len(segs) => segs[i] # <<>>)

rootPathRegex(path) ==
    /\ StartsWith(path, <<"/">>)
    /\ PathGrammar(SubSeq(path, 2, Len(path)))

currentPathRegex(path) ==
    /\ ~StartsWith(path, <<"d","a","t","a",":">>)
    /\ ~StartsWith(path, <<"j","a","v","a","s","c","r","i","p","t",":">>)
    /\ PathGrammar(path)

parentPathRegex(path) ==
    /\ StartsWith(path, <<".",".","/">>)
    /\ PathGrammar(SubSeq(path, 4, Len(path)))

\* a faulty variant: the rewritten path is emitted host-relative, without the scheme
getAbsolutePathNoScheme(u, path) ==
    IF rootPathRegex(path) THEN u.host \o path
    ELSE IF currentPathRegex(path)
    THEN u.host \o Join(DropLast(Split(u.pathname, "/"), 1) \o Split(path, "/"), "/")
    ELSE path

\* getAbsolutePath with this.url = u
getAbsolutePath(u, path) ==
    IF rootPathRegex(path)
    THEN <<"h","t","t","p","s",":","/","/">> \o u.host \o path
    ELSE IF currentPathRegex(path)
    THEN LET currentPaths == DropLast(Split(u.pathname, "/"), 1)
             assetPaths == Split(path, "/")
         IN  <<"h","t","t","p","s",":","/","/">> \o u.host \o Join(currentPaths \o assetPaths, "/")
    ELSE IF parentPathRegex(path)
    THEN LET parentPaths == DropLast(Split(u.pathname, "/"), 2)
             assetPaths == DropFirst(Split(path, "/"))
         IN  <<"h","t","t","p","s",":","/","/">> \o u.host \o Join(parentPaths \o assetPaths, "/")
    ELSE path

-----------------------------------------------------------------------------
(* The srcset loop of changeAssetsURL.                                     *)

\* the callback of .map(): one candidate of a srcset value
rewriteSrc(u, src) ==
    LET trimmed == trimLeft(src)
        srcTokens == Split(trimmed, " ")
        newTokens == [srcTokens EXCEPT ![1] = getAbsolutePath(u, srcTokens[1])]
    IN  Join(newTokens, " ")

\* a faulty variant: the candidate is not trimmed before it is split
rewriteSrcsetNoTrim(u, srcset) ==
    LET cands == Split(srcset, ",")
    IN  Join([i \in 1..Len(cands) |->
                 LET srcTokens == Split(cands[i], " ")
                 IN  Join([srcTokens EXCEPT ![1] = getAbsolutePath(u, srcTokens[1])], " ")],
             ",")

\* getAttribute('srcset').split(',').map(...).join(',')
rewriteSrcset(u, srcset) ==
    LET cands == Split(srcset, ",")
    IN  Join([i \in 1..Len(cands) |-> rewriteSrc(u, cands[i])], ",")

-----------------------------------------------------------------------------
(* Target URLs, the pages their hosts serve, documents.                    *)

\* WHATWG URL records of the target URLs used in the model
U1 == [href |-> <<"h","t","t","p",":","/","/","a","/","d","/","p">>, host |-> <<"a">>, pathname |-> <<"/","d","/","p">>]

U2 == [href |-> <<"h","t","t","p",":","/","/","b","/","q">>, host |-> <<"b">>, pathname |-> <<"/","q">>]

URLs == {U1, U2}

Hrefs == {u.href : u \in URLs}

\* new URL(href)
NewURL(href) == CHOOSE u \in URLs : u.href = href

\* parseTargetURL(sanitizedURL, originalURL)
parseTargetURL(sanitizedURL, originalURL) ==
    LET baseURL == Split(sanitizedURL, "?")[1]
        parts == Split(originalURL, "?")
    IN  IF Len(parts) < 2 THEN baseURL
        ELSE baseURL \o <<"?">> \o parts[2]

\* The decoded body a host returns for a target: the values of the href
\* attribute of its <a> element and of the src and srcset attributes of its
\* <img> element.  The pages carry no style attribute and no <style> element,
\* so styleAttrElements and styleTagElements stay empty.
Page(href) ==
    IF href = U1.href
    THEN <<<<"/","c">>, <<"i">>, <<"i"," ","1","x",","," ","k">>>>
    ELSE <<<<"h","t","t","p",":","/","/","b","/","x">>, <<".",".","/","j">>, <<"j"," ","2","x">>>>

\* new JSDOM(originalHTML), followed by the http:// -> https:// replacement
\* on documentElement.innerHTML
JSDOM(originalHTML) ==
    [href   |-> httpToHttps(originalHTML[1]),
     src    |-> httpToHttps(originalHTML[2]),
     srcset |-> httpToHttps(originalHTML[3])]

\* JSDOM.serialize()
serialize(doc) == <<doc.href, doc.src, doc.srcset>>

\* fetchAssetElements: the elements found by the five selectors; element 1
\* is the <a>, element 2 the <img> of the document this.html refers to
fetchAssetElements(doc) ==
    [hrefAttrElements   |-> <<1>>,
     srcAttrElements    |-> <<2>>,
     srcsetAttrElements |-> <<2>>,
     styleAttrElements  |-> <<>>,
     styleTagElements   |-> <<>>]

\* changeAssetsURL with this.url = u, on the elements of doc
changeAssetsURL(doc, u) ==
    [href   |-> getAbsolutePath(u, doc.href),
     src    |-> getAbsolutePath(u, doc.src),
     srcset |-> rewriteSrcset(u, doc.srcset)]

\* MirroringMemory.Instance.isCached(href)
isCached(c, href) == c[href] # NoEntry

\* MirroringMemory.Instance.getSerializedHTML(href)
getSerializedHTML(c, href) == c[href]

\* MirroringMemory.Instance.caching(href, html)
caching(c, href, doc) == [c EXCEPT ![href] = serialize(doc)]

-----------------------------------------------------------------------------
(* getHTML.  A handler runs from one await to the next without any other   *)
(* handler running; the awaits are line 72 (await req.query.url), line 128 *)
(* (the outbound request, inside requestHTML) and line 86 (the promise of  *)
(* requestHTML).                                                           *)

Reqs == 1..NumReqs

\* private static assetElements = {} as AssetElementList
NoAssets ==
    [hrefAttrElements   |-> <<>>,
     srcAttrElements    |-> <<>>,
     srcsetAttrElements |-> <<>>,
     styleAttrElements  |-> <<>>,
     styleTagElements   |-> <<>>]

\* res.status(200).send(body)
Sent(body) == [status |-> 200, body |-> body, err |-> NoError]

\* res.status(406).json({ err: { msg: err } })
Refused(err) == [status |-> 406, body |-> <<>>, err |-> err]

NewReq(href, before) ==
    [target |-> href, lookedUp |-> NoHref, fetched |-> NoHref, used |-> NoHref,
     error |-> NoError, servedBefore |-> before]

\* the static fields are declared without initializer; no request has run
MirrorInit ==
    /\ url = NoURL
    /\ html = NoDoc
    /\ assetElements = NoAssets
    /\ cache = [h \in Hrefs |-> NoEntry]
    /\ pc = [r \in Reqs |-> "idle"]
    /\ req = [r \in Reqs |-> NewReq(NoHref, FALSE)]
    /\ response = [r \in Reqs |-> NoResponse]
    /\ served = {}
    /\ started = 0

Init ==
    /\ MirrorInit
    /\ target = U1
    /\ input = <<>>
    /\ op = "none"
    /\ output = <<>>
    /\ output2 = <<>>

\* the handler is invoked with req.query.url = href and runs up to the await of
\* line 72
Start(r, href) ==
    /\ pc[r] \in {"idle", "done"}
    /\ started < MaxStarts
    /\ started' = started + 1
    /\ pc' = [pc EXCEPT ![r] = "awaitQuery"]
    /\ req' = [req EXCEPT ![r] = NewReq(href, href \in served)]
    /\ response' = [response EXCEPT ![r] = NoResponse]
    /\ UNCHANGED <<url, html, assetElements, cache, served>>

\* a faulty variant: the cache is not consulted
LookupNoCache(r) ==
    /\ pc[r] = "awaitQuery"
    /\ url' = NewURL(parseTargetURL(req[r].target, req[r].target))
    /\ pc' = [pc EXCEPT ![r] = "fetching"]
    /\ req' = [req EXCEPT ![r].lookedUp = url'.href, ![r].fetched = url'.href]
    /\ UNCHANGED <<html, assetElements, cache, response, served, started>>

\* a faulty variant: the lookup and the outbound request use the static url as it is,
\* and the handler stores its own target only afterwards
LookupStale(r) ==
    /\ pc[r] = "awaitQuery"
    /\ LET cur == IF url = NoURL
                  THEN NewURL(parseTargetURL(req[r].target, req[r].target))
                  ELSE url
       IN  /\ url' = NewURL(parseTargetURL(req[r].target, req[r].target))
           /\ IF isCached(cache, cur.href)
              THEN /\ response' = [response EXCEPT ![r] =
                          Sent(getSerializedHTML(cache, cur.href))]
                   /\ pc' = [pc EXCEPT ![r] = "done"]
                   /\ req' = [req EXCEPT ![r].lookedUp = cur.href]
                   /\ served' = served \cup {req[r].target}
              ELSE /\ pc' = [pc EXCEPT ![r] = "fetching"]
                   /\ req' = [req EXCEPT ![r].lookedUp = cur.href,
                                         ![r].fetched = cur.href]
                   /\ UNCHANGED <<response, served>>
    /\ UNCHANGED <<html, assetElements, cache, started>>

\* lines 70-86 and 124-146: the target is stored in the static url, the cache
\* is consulted, and on a miss requestHTML issues the outbound request
Lookup(r) ==
    /\ pc[r] = "awaitQuery"
    /\ url' = NewURL(parseTargetURL(req[r].target, req[r].target))
    /\ IF isCached(cache, url'.href)
       THEN /\ response' = [response EXCEPT ![r] =
                   Sent(getSerializedHTML(cache, url'.href))]
            /\ pc' = [pc EXCEPT ![r] = "done"]
            /\ req' = [req EXCEPT ![r].lookedUp = url'.href]
            /\ served' = served \cup {req[r].target}
       ELSE /\ pc' = [pc EXCEPT ![r] = "fetching"]
            /\ req' = [req EXCEPT ![r].lookedUp = url'.href,
                                  ![r].fetched = url'.href]
            /\ UNCHANGED <<response, served>>
    /\ UNCHANGED <<html, assetElements, cache, started>>

\* lines 139-155: the outbound request succeeds; the body is decoded, parsed
\* into the static html and upgraded; requestHTML's promise resolves
FetchOK(r) ==
    /\ pc[r] = "fetching"
    /\ html' = JSDOM(Page(req[r].fetched))
    /\ pc' = [pc EXCEPT ![r] = "returned"]
    /\ UNCHANGED <<url, assetElements, cache, req, response, served, started>>

\* lines 142-144: the outbound request fails; requestHTML's promise rejects
FetchFail(r) ==
    /\ pc[r] = "fetching"
    /\ req' = [req EXCEPT ![r].error = [name |-> "RequestError", href |-> req[r].fetched]]
    /\ pc' = [pc EXCEPT ![r] = "threw"]
    /\ UNCHANGED <<url, html, assetElements, cache, response, served, started>>

\* a faulty variant: the catch block does not return, and the handler goes on to
\* lines 97-98
CatchFallThrough(r) ==
    /\ pc[r] = "threw"
    /\ html # NoDoc
    /\ cache' = caching(cache, url.href, html)
    /\ response' = [response EXCEPT ![r] = Sent(serialize(html))]
    /\ pc' = [pc EXCEPT ![r] = "done"]
    /\ UNCHANGED <<url, html, assetElements, req, served, started>>

\* lines 89-95: the catch block
Catch(r) ==
    /\ pc[r] = "threw"
    /\ response' = [response EXCEPT ![r] =
            Refused(req[r].error)]
    /\ pc' = [pc EXCEPT ![r] = "done"]
    /\ UNCHANGED <<url, html, assetElements, cache, req, served, started>>

\* lines 87-88 and 97-98: the assets of the static html are located and
\* rewritten against the static url, the document is cached under the static
\* url and sent
Finish(r) ==
    /\ pc[r] = "returned"
    /\ assetElements' = fetchAssetElements(html)
    /\ html' = changeAssetsURL(html, url)
    /\ cache' = caching(cache, url.href, html')
    /\ response' = [response EXCEPT ![r] = Sent(serialize(html'))]
    /\ req' = [req EXCEPT ![r].used = url.href]
    /\ served' = served \cup {req[r].target}
    /\ pc' = [pc EXCEPT ![r] = "done"]
    /\ UNCHANGED <<url, started>>

Next ==
    \/ \E r \in Reqs, href \in Hrefs : Start(r, href) /\ UNCHANGED pathVars
    \/ \E r \in Reqs : Lookup(r) /\ UNCHANGED pathVars
    \/ \E r \in Reqs : FetchOK(r) /\ UNCHANGED pathVars
    \/ \E r \in Reqs : FetchFail(r) /\ UNCHANGED pathVars
    \/ \E r \in Reqs : Catch(r) /\ UNCHANGED pathVars
    \/ \E r \in Reqs : Finish(r) /\ UNCHANGED pathVars

Spec == Init /\ [][Next]_vars

-----------------------------------------------------------------------------
(* Runs of getAbsolutePath and of the srcset rewriting on their own: the   *)
(* target and the raw value are drawn from bounded sets, and the functions *)
(* are applied to them.                                                    *)

Targets ==
    { [href |-> <<"h","t","t","p",":","/","/","h","/">>, host |-> <<"h">>, pathname |-> <<"/">>],
      [href |-> <<"h","t","t","p",":","/","/","h","/","d","/","p">>, host |-> <<"h">>, pathname |-> <<"/","d","/","p">>],
      [href |-> <<"h","t","t","p",":","/","/","e","x","a","m","p","l","e",".","c","o","m","/","d","i","r","/","s","u","b","/","p","a","g","e",".","h","t","m","l">>,
       host |-> <<"e","x","a","m","p","l","e",".","c","o","m">>, pathname |-> <<"/","d","i","r","/","s","u","b","/","p","a","g","e",".","h","t","m","l">>] }

Alphabet == {"a", ".", "/", ":", " ", ","}

Examples ==
    { <<"/","a","/","b",".","p","n","g">>, <<"i","m","g","/","b",".","p","n","g">>, <<".",".","/","i","m","g","/","b",".","p","n","g">>, <<".",".","/">>,
      <<"d","a","t","a",":","i","m","a","g","e","/","p","n","g",";","b","a","s","e","6","4",",","A","A","A","A">>, <<"j","a","v","a","s","c","r","i","p","t",":","v","o","i","d","(","0",")">>,
      <<"h","t","t","p","s",":","/","/","o","t","h","e","r",".","c","o","m","/","x",".","p","n","g">>, <<"/","/","c","d","n",".","c","o","m","/","x",".","j","s">>,
      <<"m","a","i","l","t","o",":","a","@","b",".","c">>, <<"t","e","l",":","1","2","3">>,
      <<"a",".","p","n","g"," ","1","x",","," ","b",".","p","n","g"," ","2","x">>, <<"\t","a",".","p","n","g"," ","1","x">>, <<"a"," ","b"," ","c",","," ",".",".","/","d"," ","2","x">> }

Inputs == UNION { [1..n -> Alphabet] : n \in 0..MaxLen } \cup Examples

PathInit ==
    /\ MirrorInit
    /\ target \in Targets
    /\ input \in Inputs
    /\ op = "none"
    /\ output = <<>>
    /\ output2 = <<>>

\* getAbsolutePath(input) with this.url = target
Absolutize ==
    /\ op = "none"
    /\ op' = "abs"
    /\ output' = getAbsolutePath(target, input)
    /\ UNCHANGED <<target, input, output2>>

\* getAbsolutePath applied to its own result
Reabsolutize ==
    /\ op = "abs"
    /\ op' = "abs2"
    /\ output2' = getAbsolutePath(target, output)
    /\ UNCHANGED <<target, input, output>>

\* the srcset loop of changeAssetsURL on an element whose srcset is input
Srcset ==
    /\ op = "none"
    /\ op' = "srcset"
    /\ output' = rewriteSrcset(target, input)
    /\ UNCHANGED <<target, input, output2>>

PathNext ==
    \/ Absolutize /\ UNCHANGED mirrorVars
    \/ Reabsolutize /\ UNCHANGED mirrorVars
    \/ Srcset /\ UNCHANGED mirrorVars

PathSpec == PathInit /\ [][PathNext]_vars

-----------------------------------------------------------------------------
(* Properties.                                                             *)

\* C1: the URL a request absolutizes against and caches under after its fetch
\* is the URL the request was invoked with.
C1_Isolation ==
    \A r \in Reqs : req[r].used # NoHref => req[r].used = req[r].target

\* C2: a request that finds its target cached at lookup time answers 200 with
\* exactly the stored serialized document, issues no outbound request,
\* rewrites nothing and leaves the cache as it is.
C2_CacheHit ==
    [][\A r \in Reqs :
          (pc[r] = "awaitQuery" /\ pc'[r] # "awaitQuery"
               /\ isCached(cache, req[r].target))
          => /\ pc'[r] = "done"
             /\ response'[r] = Sent(cache[req[r].target])
             /\ req'[r].fetched = NoHref
             /\ cache' = cache
             /\ html' = html
             /\ assetElements' = assetElements]_vars

C2_Witness ==
    \E r \in Reqs :
        /\ pc[r] = "done"
        /\ response[r] # NoResponse
        /\ response[r].status = 200
        /\ req[r].fetched = NoHref
        /\ response[r].body = cache[req[r].target]

\* C3: a request for a URL that starts after a request for the same URL has
\* returned 200 issues no outbound request.
C3_NoSecondFetch ==
    \A r \in Reqs : req[r].servedBefore => req[r].fetched = NoHref

\* C4: a request whose outbound fetch fails produces no document, leaves the
\* cache as it is and answers 406 with the error.
C4_FetchFailure ==
    [][\A r \in Reqs :
          /\ (pc[r] = "fetching" /\ pc'[r] = "threw")
             => /\ cache' = cache
                /\ html' = html
                /\ response'[r] = NoResponse
          /\ (pc[r] = "threw" /\ pc'[r] # "threw")
             => /\ pc'[r] = "done"
                /\ response'[r] = Refused(req[r].error)
                /\ req[r].error # NoError
                /\ req'[r].used = NoHref
                /\ cache' = cache
                /\ html' = html]_vars

C4_Witness ==
    \E r \in Reqs :
        /\ pc[r] = "done"
        /\ response[r] # NoResponse
        /\ response[r].status = 406
        /\ req[r].error # NoError

\* the segments of a URL path, without the empty one before the leading /
PathSegments(pathname) == DropFirst(Split(pathname, "/"))

ParentRelative(path) ==
    /\ StartsWith(path, <<".",".","/">>)
    /\ \A i \in 4..Len(path) : path[i] \in PathChar \cup {"/"}

\* C5: a parent-relative raw path is resolved by dropping the last two
\* segments of the target's path and the leading ../ of the raw path.
C5_ParentRelative ==
    (op = "abs" /\ ParentRelative(input))
    => output = <<"h","t","t","p","s",":","/","/">> \o target.host \o <<"/">>
                  \o Join(DropLast(PathSegments(target.pathname), 2)
                            \o DropFirst(Split(input, "/")), "/")

\* RFC 3986 scheme followed by a colon
HasScheme(path) ==
    \E i \in 2..Len(path) :
        /\ path[i] = ":"
        /\ path[1] \in Upper \cup Lower
        /\ \A j \in 2..(i-1) : path[j] \in Upper \cup Lower \cup Digit \cup {"+", "-", "."}

OpaqueOrAbsolute(path) ==
    \/ StartsWith(path, <<"d","a","t","a",":">>)
    \/ StartsWith(path, <<"j","a","v","a","s","c","r","i","p","t",":">>)
    \/ HasScheme(path)

\* C6: a raw path that begins with data: or javascript:, or that has a
\* scheme, is returned unchanged.
C6_OpaqueOrAbsoluteUnchanged ==
    (op = "abs" /\ OpaqueOrAbsolute(input)) => output = input

Relative(path) ==
    rootPathRegex(path) \/ currentPathRegex(path) \/ parentPathRegex(path)

\* C7: absolutizing the result again changes nothing, and a rewritten path
\* matches none of the three relative-path expressions.
C7_Projection ==
    /\ op = "abs2" => output2 = output
    /\ (op \in {"abs", "abs2"} /\ Relative(input))
       => (output # input /\ ~Relative(output))

C7_Witness ==
    /\ op = "abs2"
    /\ target.pathname = <<"/","d","i","r","/","s","u","b","/","p","a","g","e",".","h","t","m","l">>
    /\ input = <<"i","m","g","/","b",".","p","n","g">>
    /\ output = <<"h","t","t","p","s",":","/","/","e","x","a","m","p","l","e",".","c","o","m","/","d","i","r","/","s","u","b","/","i","m","g","/","b",".","p","n","g">>
    /\ output2 = output

\* one srcset candidate, cut at its first space after the leading white space
\* is removed: the part before is absolutized, the rest is kept
ExpectedCandidate(u, cand) ==
    LET t == trimLeft(cand)
        sp == IndexOf(t, " ")
    IN  IF sp = 0 THEN getAbsolutePath(u, t)
        ELSE getAbsolutePath(u, SubSeq(t, 1, sp - 1)) \o SubSeq(t, sp, Len(t))

\* C8: the rewritten srcset has one candidate per comma-separated candidate
\* of the input, in the same order, with the path absolutized and the
\* descriptor kept, joined by commas.
C8_Srcset ==
    op = "srcset"
    => LET cands == Split(input, ",")
       IN  output = Join([i \in 1..Len(cands) |-> ExpectedCandidate(target, cands[i])], ",")

C8_Witness ==
    /\ op = "srcset"
    /\ target.host = <<"h">>
    /\ target.pathname = <<"/">>
    /\ input = <<"a",".","p","n","g"," ","1","x",","," ","b",".","p","n","g"," ","2","x">>
    /\ output = <<"h","t","t","p","s",":","/","/","h","/","a",".","p","n","g"," ","1","x",",","h","t","t","p","s",":","/","/","h","/","b",".","p","n","g"," ","2","x">>

Positions == {"idle", "awaitQuery", "fetching", "returned", "threw", "done"}

\* C9 as stated: a request is suspended only while its outbound request is
\* pending; at every other position the next step is its own.
C9_SuspendsOnce ==
    [][\A r \in Reqs :
          pc[r] \in {"awaitQuery", "returned", "threw"} => pc'[r] # pc[r]]_vars

\* C9 as amended: a request is suspended at the three awaits; storing the
\* target, the cache lookup and the issue of the outbound request are one
\* step, and asset location, rewriting, the cache write and the response are
\* one step.
C9_AtomicSteps ==
    [][\A r \in Reqs :
          /\ pc'[r] \in Positions
          /\ (pc[r] = "awaitQuery" /\ pc'[r] # "awaitQuery")
             => /\ pc'[r] \in {"done", "fetching"}
                /\ url'.href = req[r].target
                /\ req'[r].lookedUp = req[r].target
                /\ pc'[r] = "fetching" => req'[r].fetched = req[r].target
                /\ pc'[r] = "done" => response'[r].body = cache[req[r].target]
          /\ (pc[r] = "returned" /\ pc'[r] # "returned")
             => /\ pc'[r] = "done"
                /\ url' = url
                /\ req'[r].used = url.href
                /\ html' = changeAssetsURL(html, url)
                /\ response'[r] = Sent(serialize(html'))
                /\ cache'[url.href] = response'[r].body]_vars

C9_Witness ==
    \E r1, r2 \in Reqs :
        /\ r1 # r2
        /\ pc[r1] = "returned"
        /\ pc[r2] = "awaitQuery"

\* the mirrored page of a target: its own page, rewritten against itself
Mirrored(href) == serialize(changeAssetsURL(JSDOM(Page(href)), NewURL(href)))

\* C10: every cache entry holds the page of its key, rewritten against its
\* key.
C10_CacheKeyConsistency ==
    \A h \in Hrefs : cache[h] # NoEntry => cache[h] = Mirrored(h)

=============================================================================
